---- MODULE Spec2Model ----
(***************************************************************************)
(* Multiplayer room lifecycle of the puzzle backend (src/src/app.js).      *)
(* The storage rows are the state; every handler is a sequence of          *)
(* statements, each sent with query() on its own (no transaction), so a    *)
(* handler is one action per awaited statement and requests interleave     *)
(* between statements.                                                      *)
(***************************************************************************)
EXTENDS Integers, Sequences, FiniteSets, Bags, TLC

\* ------------------------------------------------------------ bounds
MaxUsers == 3
MaxCodes == 1
MaxRoomSize == 2
MaxTime == 1
MaxCompletionTime == 2
MaxMoves == 1
MaxRounds == 1
ReplayRounds == 2
RoomsUsers == 2
RoomsCodes == 2
MaxInFlight == 2
ConcMaxRounds == 1
ConcUsers == 2
MaxDrift == 1
MaxRaces == 1
LobbyRoomSize == 3
FaultUsers == 2
MaxTxs == 2
MaxBatch == 2
EconUsers == 2
MaxEconOps == 3
ConcEconOps == 3
LevelOps == 6
MaxLevel == 5
SettleOps == 1
RecordOps == 3
OrphanOps == 3

\* ------------------------------------------------- program constants
maxAttempts == 10
MinPlayers == 2
NULL == -1
CodeLength == 8

Slots == 1..MaxInFlight
MaxPlayersChoices == MinPlayers..MaxRoomSize
CompletionTimes == 1..MaxCompletionTime
MovesCounts == 0..MaxMoves

ActiveStatuses == {"waiting", "ready", "playing"}
TerminalStatuses == {"finished", "closed"}

VARIABLES rooms, players, gameRecords, now, reqs, races

\* The economy: user_stats and user_achievements rows, the transactions in
\* flight, the last response sent, and what has been credited so far.
VARIABLES userStats, userAchievements, txs, resp, credited, grants, ops

\* The rows that a single-player completion leaves: game_records,
\* user_best_times and leaderboard.
VARIABLES soloRecords, bestTimes, leaderboard

roomVars == <<rooms, players, gameRecords, now, reqs, races>>
gameVars == <<soloRecords, bestTimes, leaderboard>>
econVars == <<userStats, userAchievements, txs, resp, credited, grants, ops,
              soloRecords, bestTimes, leaderboard>>

vars == <<rooms, players, gameRecords, now, reqs, races,
          userStats, userAchievements, txs, resp, credited, grants, ops,
          soloRecords, bestTimes, leaderboard>>

\* ------------------------------------------------------------- rows
NoRoom ==
  [code |-> 0, host |-> 0, maxPlayers |-> 0, currentPlayers |-> 0,
   status |-> "none", startedAt |-> NULL, finishedAt |-> NULL, round |-> 0]

NewRoom(c, u, m) ==
  [code |-> c, host |-> u, maxPlayers |-> m, currentPlayers |-> 1,
   status |-> "waiting", startedAt |-> NULL, finishedAt |-> NULL, round |-> 0]

NewPlayer(r, u, h) ==
  [room |-> r, user |-> u, status |-> "joined", isHost |-> h,
   ctime |-> NULL, moves |-> 0, rank |-> NULL,
   joinedAt |-> now, readyAt |-> NULL, finishedAt |-> NULL]

Idle ==
  [op |-> "idle", pc |-> "idle", user |-> 0, code |-> 0, rid |-> 0,
   room |-> NoRoom, maxP |-> 0, attempts |-> 0, ct |-> NULL, mv |-> NULL,
   total |-> 0, wasHost |-> FALSE, target |-> 0, winner |-> 0,
   gameEnded |-> FALSE, res |-> "none", pre |-> <<>>, keep |-> FALSE]

\* pre: the rows as they were when the request arrived, kept with the
\* response.
NewReq(P, op, u, c) ==
  [Idle EXCEPT !.op = op, !.user = u, !.code = c, !.keep = P.keep,
               !.pre = IF P.keep THEN <<rooms, players, userStats>> ELSE <<>>]

RoomIds == 1..Len(rooms)
PlayersOf(r) == {p \in players : p.room = r}
Member(r, u) == {p \in players : p.room = r /\ p.user = u}
RoomsByCode(c, statuses) ==
  {i \in RoomIds : rooms[i].code = c /\ rooms[i].status \in statuses}
AllStatuses == {"waiting", "ready", "playing", "finished", "closed"}

\* ------------------------------------------------------ request slots
\* A scope P names what a specification draws from: the slots requests run
\* in (one slot runs the handlers one at a time, two let them interleave),
\* the users, codes and room sizes of the requests, the completion inputs and
\* the number of game rounds. A new request takes the lowest slot when it is free.
CanBegin(P, s) ==
  /\ s \in P.slots
  /\ reqs[s].pc = "idle"
  /\ \A t \in P.slots : t < s => reqs[t].pc # "idle"

\* A request that arrives while another handler is running races with it;
\* races counts them.
Running(s) == reqs[s].pc \notin {"idle", "done"}
Overlaps(P, s) == \E t \in P.slots : t # s /\ Running(t)
Race(P, s) ==
  IF Overlaps(P, s)
    THEN races < P.races /\ races' = races + 1
    ELSE races' = races

At(s, op, pc) == reqs[s].op = op /\ reqs[s].pc = pc

Goto(s, pc) == reqs' = [reqs EXCEPT ![s].pc = pc]
\* The handler returns: its locals are gone. A scope that keeps responses
\* holds the response until Retire sends it; otherwise the slot is free at
\* once.
Done(r, res) ==
  IF r.keep
    THEN [Idle EXCEPT !.op = r.op, !.pc = "done", !.user = r.user, !.code = r.code,
                      !.rid = r.rid, !.ct = r.ct, !.mv = r.mv, !.maxP = r.maxP,
                      !.gameEnded = r.gameEnded, !.res = res, !.pre = r.pre,
                      !.keep = TRUE]
    ELSE Idle

\* Running requests keep the lowest slots, in the order they arrived.
Compact(f) ==
  LET live == SelectSeq([i \in 1..MaxInFlight |-> f[i]], LAMBDA r : r.pc # "idle")
  IN  [i \in Slots |-> IF i <= Len(live) THEN live[i] ELSE Idle]

Respond(s, res) == reqs' = Compact([reqs EXCEPT ![s] = Done(reqs[s], res)])

\* ------------------------------------------------------- createRoom
chars ==
  <<"A", "B", "C", "D", "E", "F", "G", "H", "I", "J", "K", "L", "M",
    "N", "O", "P", "Q", "R", "S", "T", "U", "V", "W", "X", "Y", "Z",
    "0", "1", "2", "3", "4", "5", "6", "7", "8", "9">>

\* Math.floor(Math.random() * chars.length) at character i of the code that a
\* request knows as c: the requests draw their codes from P.codes, and code
\* c stands for this sequence of draws.
RandomIndex(c, i) == (c + 7 * (i - 1)) % Len(chars)

\* The text of code c: charAt is 0-based.
generateRoomCode(c) == [i \in 1..CodeLength |-> chars[RandomIndex(c, i) + 1]]

isRoomCodeExists(c) == RoomsByCode(c, AllStatuses \ TerminalStatuses) # {}

\* One turn of the do-while of generateUniqueRoomCode on request record r.
GenerateAttempt(P, s, r) ==
  \E c \in P.codes :
    LET n == r.attempts + 1 IN
    IF isRoomCodeExists(c) /\ n < maxAttempts
      THEN reqs' = [reqs EXCEPT ![s] = [r EXCEPT !.pc = "generate", !.attempts = n, !.code = c]]
      ELSE IF n >= maxAttempts
        THEN reqs' = Compact([reqs EXCEPT ![s] = Done([r EXCEPT !.code = c], "exhausted")])
        ELSE reqs' = [reqs EXCEPT ![s] = [r EXCEPT !.pc = "insertRoom", !.attempts = n, !.code = c]]

CreateBegin(P, s) ==
  /\ CanBegin(P, s)
  /\ \E u \in P.users, m \in P.sizes :
       GenerateAttempt(P, s, [NewReq(P, "create", u, 0) EXCEPT !.maxP = m])
  /\ Race(P, s)
  /\ UNCHANGED <<rooms, players, gameRecords, now>>
  /\ UNCHANGED econVars

CreateGenerate(P, s) ==
  /\ At(s, "create", "generate")
  /\ GenerateAttempt(P, s, reqs[s])
  /\ UNCHANGED <<rooms, players, gameRecords, now, races>>
  /\ UNCHANGED econVars

\* Variant of the INSERT on a table without the UNIQUE key on room_code.
CreateInsertRoomNoKey(s) ==
  /\ At(s, "create", "insertRoom")
  /\ rooms' = Append(rooms, NewRoom(reqs[s].code, reqs[s].user, reqs[s].maxP))
  /\ reqs' = [reqs EXCEPT ![s].pc = "insertHost", ![s].rid = Len(rooms) + 1]
  /\ UNCHANGED <<players, gameRecords, now, races>>
  /\ UNCHANGED econVars

\* room_code is UNIQUE in multiplayer_rooms: the INSERT throws on any room
\* holding the code, whatever its status.
CreateInsertRoom(s) ==
  /\ At(s, "create", "insertRoom")
  /\ IF \E i \in RoomIds : rooms[i].code = reqs[s].code
       THEN /\ Respond(s, "error")
            /\ UNCHANGED rooms
       ELSE /\ rooms' = Append(rooms, NewRoom(reqs[s].code, reqs[s].user, reqs[s].maxP))
            /\ reqs' = [reqs EXCEPT ![s].pc = "insertHost", ![s].rid = Len(rooms) + 1]
  /\ UNCHANGED <<players, gameRecords, now, races>>
  /\ UNCHANGED econVars

CreateInsertHost(s) ==
  /\ At(s, "create", "insertHost")
  /\ IF Member(reqs[s].rid, reqs[s].user) # {}
       THEN /\ Respond(s, "error")
            /\ UNCHANGED players
       ELSE /\ players' = players \cup {NewPlayer(reqs[s].rid, reqs[s].user, TRUE)}
            /\ Respond(s, "ok")
  /\ UNCHANGED <<rooms, gameRecords, now, races>>
  /\ UNCHANGED econVars

\* --------------------------------------------------------- joinRoom
existingRoomCheck(u) ==
  {p \in players : p.user = u /\ rooms[p.room].status \in ActiveStatuses}

JoinBegin(P, s) ==
  /\ CanBegin(P, s)
  /\ \E u \in P.users, c \in P.codes :
       LET r == NewReq(P, "join", u, c) IN
       IF existingRoomCheck(u) # {}
         THEN reqs' = Compact([reqs EXCEPT ![s] = Done(r, "alreadyActive")])
         ELSE reqs' = [reqs EXCEPT ![s] = [r EXCEPT !.pc = "findRoom"]]
  /\ Race(P, s)
  /\ UNCHANGED <<rooms, players, gameRecords, now>>
  /\ UNCHANGED econVars

\* Variant of the capacity test that lets one player past maxPlayers.
JoinFindRoomOverfull(s) ==
  /\ At(s, "join", "findRoom")
  /\ LET found == RoomsByCode(reqs[s].code, {"waiting"}) IN
     IF found = {}
       THEN Respond(s, "notFound")
       ELSE \E i \in found :
              IF rooms[i].currentPlayers > rooms[i].maxPlayers
                THEN Respond(s, "full")
                ELSE reqs' = [reqs EXCEPT ![s].pc = "checkMember", ![s].rid = i, ![s].room = rooms[i]]
  /\ UNCHANGED <<rooms, players, gameRecords, now, races>>
  /\ UNCHANGED econVars

JoinFindRoom(s) ==
  /\ At(s, "join", "findRoom")
  /\ LET found == RoomsByCode(reqs[s].code, {"waiting"}) IN
     IF found = {}
       THEN Respond(s, "notFound")
       ELSE \E i \in found :
              IF rooms[i].currentPlayers >= rooms[i].maxPlayers
                THEN Respond(s, "full")
                ELSE reqs' = [reqs EXCEPT ![s].pc = "checkMember", ![s].rid = i, ![s].room = rooms[i]]
  /\ UNCHANGED <<rooms, players, gameRecords, now, races>>
  /\ UNCHANGED econVars

JoinCheckMember(s) ==
  /\ At(s, "join", "checkMember")
  /\ IF Member(reqs[s].rid, reqs[s].user) # {}
       THEN Respond(s, "alreadyMember")
       ELSE Goto(s, "insertPlayer")
  /\ UNCHANGED <<rooms, players, gameRecords, now, races>>
  /\ UNCHANGED econVars

\* UNIQUE KEY unique_room_user (room_id, user_id): a second row throws, here
\* and in CreateInsertHost.
JoinInsertPlayer(s) ==
  /\ At(s, "join", "insertPlayer")
  /\ IF Member(reqs[s].rid, reqs[s].user) # {}
       THEN /\ Respond(s, "error")
            /\ UNCHANGED players
       ELSE /\ players' = players \cup {NewPlayer(reqs[s].rid, reqs[s].user, FALSE)}
            /\ Goto(s, "countUp")
  /\ UNCHANGED <<rooms, gameRecords, now, races>>
  /\ UNCHANGED econVars

JoinCountUp(s) ==
  /\ At(s, "join", "countUp")
  /\ rooms' = [rooms EXCEPT ![reqs[s].rid].currentPlayers = @ + 1]
  /\ Respond(s, "ok")
  /\ UNCHANGED <<players, gameRecords, now, races>>
  /\ UNCHANGED econVars

\* -------------------------------------------------------- leaveRoom
\* Variant of the host choice that takes the row that joined last.
LatestJoined(r) ==
  {p \in PlayersOf(r) : \A q \in PlayersOf(r) : p.joinedAt >= q.joinedAt}

\* ORDER BY joined_at LIMIT 1: any row with the least joined_at.
EarliestJoined(r) ==
  {p \in PlayersOf(r) : \A q \in PlayersOf(r) : p.joinedAt <= q.joinedAt}

\* How far current_players has fallen below the rows of the room; leaves are
\* taken only while it is under MaxDrift, which keeps the counter bounded.
Drift(i) == Cardinality(PlayersOf(i)) - rooms[i].currentPlayers

LeaveBegin(P, s) ==
  /\ CanBegin(P, s)
  /\ \E u \in P.users, c \in P.codes :
       LET r == NewReq(P, "leave", u, c)
           found == RoomsByCode(c, AllStatuses) IN
       IF found = {}
         THEN reqs' = Compact([reqs EXCEPT ![s] = Done(r, "notFound")])
         ELSE \E i \in found :
                /\ Drift(i) < MaxDrift
                /\ reqs' = [reqs EXCEPT ![s] = [r EXCEPT !.pc = "findPlayer", !.rid = i, !.room = rooms[i]]]
  /\ Race(P, s)
  /\ UNCHANGED <<rooms, players, gameRecords, now>>
  /\ UNCHANGED econVars

LeaveFindPlayer(s) ==
  /\ At(s, "leave", "findPlayer")
  /\ LET found == Member(reqs[s].rid, reqs[s].user) IN
     IF found = {}
       THEN Respond(s, "playerNotFound")
       ELSE \E p \in found :
              reqs' = [reqs EXCEPT ![s].pc = "deletePlayer", ![s].wasHost = p.isHost]
  /\ UNCHANGED <<rooms, players, gameRecords, now, races>>
  /\ UNCHANGED econVars

LeaveDeletePlayer(s) ==
  /\ At(s, "leave", "deletePlayer")
  /\ players' = players \ Member(reqs[s].rid, reqs[s].user)
  /\ Goto(s, "countDown")
  /\ UNCHANGED <<rooms, gameRecords, now, races>>
  /\ UNCHANGED econVars

LeaveCountDown(s) ==
  /\ At(s, "leave", "countDown")
  /\ rooms' = [rooms EXCEPT ![reqs[s].rid].currentPlayers = @ - 1]
  /\ IF reqs[s].wasHost THEN Goto(s, "findRemaining") ELSE Respond(s, "ok")
  /\ UNCHANGED <<players, gameRecords, now, races>>
  /\ UNCHANGED econVars

LeaveFindRemaining(s) ==
  /\ At(s, "leave", "findRemaining")
  /\ IF PlayersOf(reqs[s].rid) = {}
       THEN Goto(s, "closeRoom")
       ELSE \E p \in EarliestJoined(reqs[s].rid) :
              reqs' = [reqs EXCEPT ![s].pc = "setHostFlag", ![s].target = p.user]
  /\ UNCHANGED <<rooms, players, gameRecords, now, races>>
  /\ UNCHANGED econVars

LeaveSetHostFlag(s) ==
  /\ At(s, "leave", "setHostFlag")
  /\ players' = {IF p.room = reqs[s].rid /\ p.user = reqs[s].target
                   THEN [p EXCEPT !.isHost = TRUE] ELSE p : p \in players}
  /\ Goto(s, "setHostUser")
  /\ UNCHANGED <<rooms, gameRecords, now, races>>
  /\ UNCHANGED econVars

LeaveSetHostUser(s) ==
  /\ At(s, "leave", "setHostUser")
  /\ rooms' = [rooms EXCEPT ![reqs[s].rid].host = reqs[s].target]
  /\ Respond(s, "ok")
  /\ UNCHANGED <<players, gameRecords, now, races>>
  /\ UNCHANGED econVars

LeaveCloseRoom(s) ==
  /\ At(s, "leave", "closeRoom")
  /\ rooms' = [rooms EXCEPT ![reqs[s].rid].status = "closed"]
  /\ Respond(s, "ok")
  /\ UNCHANGED <<players, gameRecords, now, races>>
  /\ UNCHANGED econVars

\* --------------------------------------------------------- setReady
\* COUNT(*) and SUM(CASE ...) of the aggregate rows are compared as numbers;
\* SUM over no rows is NULL and equals no count.
CountWhere(r, st) == Cardinality({p \in PlayersOf(r) : p.status = st})
SumWhere(r, st) == IF PlayersOf(r) = {} THEN NULL ELSE CountWhere(r, st)

ReadyBegin(P, s) ==
  /\ CanBegin(P, s)
  /\ \E u \in P.users, c \in P.codes :
       LET r == NewReq(P, "ready", u, c)
           found == RoomsByCode(c, {"waiting", "ready"}) IN
       IF found = {}
         THEN reqs' = Compact([reqs EXCEPT ![s] = Done(r, "notFound")])
         ELSE \E i \in found :
                reqs' = [reqs EXCEPT ![s] = [r EXCEPT !.pc = "markReady", !.rid = i]]
  /\ Race(P, s)
  /\ UNCHANGED <<rooms, players, gameRecords, now>>
  /\ UNCHANGED econVars

ReadyMark(s) ==
  /\ At(s, "ready", "markReady")
  /\ IF Member(reqs[s].rid, reqs[s].user) = {}
       THEN /\ Respond(s, "playerNotFound")
            /\ UNCHANGED players
       ELSE /\ players' = {IF p.room = reqs[s].rid /\ p.user = reqs[s].user
                             THEN [p EXCEPT !.status = "ready", !.readyAt = now]
                             ELSE p : p \in players}
            /\ Goto(s, "countReady")
  /\ UNCHANGED <<rooms, gameRecords, now, races>>
  /\ UNCHANGED econVars

\* Variant of the room test that does not ask for two players.
ReadyCountAlone(s) ==
  /\ At(s, "ready", "countReady")
  /\ LET total == Cardinality(PlayersOf(reqs[s].rid))
         ready_count == SumWhere(reqs[s].rid, "ready") IN
     IF ready_count = total
       THEN Goto(s, "roomReady")
       ELSE Respond(s, "ok")
  /\ UNCHANGED <<rooms, players, gameRecords, now, races>>
  /\ UNCHANGED econVars

ReadyCount(s) ==
  /\ At(s, "ready", "countReady")
  /\ LET total == Cardinality(PlayersOf(reqs[s].rid))
         ready_count == SumWhere(reqs[s].rid, "ready") IN
     IF total >= MinPlayers /\ ready_count = total
       THEN Goto(s, "roomReady")
       ELSE Respond(s, "ok")
  /\ UNCHANGED <<rooms, players, gameRecords, now, races>>
  /\ UNCHANGED econVars

ReadyRoom(s) ==
  /\ At(s, "ready", "roomReady")
  /\ rooms' = [rooms EXCEPT ![reqs[s].rid].status = "ready"]
  /\ Respond(s, "ok")
  /\ UNCHANGED <<players, gameRecords, now, races>>
  /\ UNCHANGED econVars

\* -------------------------------------------------------- startGame
RECURSIVE RoundsUpTo(_)
RoundsUpTo(n) == IF n = 0 THEN 0 ELSE rooms[n].round + RoundsUpTo(n - 1)
Starting == Cardinality({s \in Slots : reqs[s].op = "start" /\ reqs[s].pc # "done"})

StartBegin(P, s) ==
  /\ CanBegin(P, s)
  /\ RoundsUpTo(Len(rooms)) + Starting < P.rounds
  /\ \E u \in P.users, c \in P.codes :
       LET r == NewReq(P, "start", u, c)
           found == {i \in RoomsByCode(c, {"waiting"}) : rooms[i].host = u} IN
       IF found = {}
         THEN reqs' = Compact([reqs EXCEPT ![s] = Done(r, "notFound")])
         ELSE \E i \in found :
                reqs' = [reqs EXCEPT ![s] = [r EXCEPT !.pc = "loadPlayers", !.rid = i, !.room = rooms[i]]]
  /\ Race(P, s)
  /\ UNCHANGED <<rooms, players, gameRecords, now>>
  /\ UNCHANGED econVars

\* Variant of the readiness test that asks the host to be ready as well.
allPlayersReady(r) ==
  \A p \in PlayersOf(r) : p.status = "ready"

allGuestsReady(r) ==
  \A p \in PlayersOf(r) : ~p.isHost => p.status = "ready"

StartLoadPlayers(s) ==
  /\ At(s, "start", "loadPlayers")
  /\ IF Cardinality(PlayersOf(reqs[s].rid)) < MinPlayers
       THEN Respond(s, "notEnough")
       ELSE IF ~allGuestsReady(reqs[s].rid)
         THEN Respond(s, "notReady")
         ELSE Goto(s, "setPlaying")
  /\ UNCHANGED <<rooms, players, gameRecords, now, races>>
  /\ UNCHANGED econVars

StartSetPlaying(s) ==
  /\ At(s, "start", "setPlaying")
  /\ rooms' = [rooms EXCEPT ![reqs[s].rid].status = "playing",
                            ![reqs[s].rid].startedAt = now,
                            ![reqs[s].rid].round = @ + 1]
  /\ Goto(s, "playersPlaying")
  /\ UNCHANGED <<players, gameRecords, now, races>>
  /\ UNCHANGED econVars

StartPlayersPlaying(s) ==
  /\ At(s, "start", "playersPlaying")
  /\ players' = {IF p.room = reqs[s].rid THEN [p EXCEPT !.status = "playing"] ELSE p
                   : p \in players}
  /\ Respond(s, "ok")
  /\ UNCHANGED <<rooms, gameRecords, now, races>>
  /\ UNCHANGED econVars

\* ----------------------------------------------------- recordFinish
\* SQL comparisons: a comparison with NULL is not true.
SqlLt(a, b) == a # NULL /\ b # NULL /\ a < b
SqlEq(a, b) == a # NULL /\ b # NULL /\ a = b

\* The WHERE of the rank subquery: rp2 = q precedes rp1 = p.
Precedes(q, p) ==
  \/ SqlLt(q.ctime, p.ctime)
  \/ (SqlEq(q.ctime, p.ctime) /\ SqlLt(q.moves, p.moves))
  \/ (SqlEq(q.ctime, p.ctime) /\ SqlEq(q.moves, p.moves) /\ SqlLt(q.finishedAt, p.finishedAt))

RankOf(p) == Cardinality({q \in PlayersOf(p.room) : Precedes(q, p)}) + 1

\* ORDER BY completion_time ASC, moves_count ASC, finished_at ASC: NULL sorts
\* first, as the least value does.
OrderLeq(p, q) ==
  \/ p.ctime < q.ctime
  \/ (p.ctime = q.ctime /\ p.moves < q.moves)
  \/ (p.ctime = q.ctime /\ p.moves = q.moves /\ p.finishedAt <= q.finishedAt)

\* LIMIT 1: any row no other row sorts before.
FirstByOrder(r) == {p \in PlayersOf(r) : \A q \in PlayersOf(r) : OrderLeq(p, q)}

FinishBegin(P, s) ==
  /\ CanBegin(P, s)
  /\ \E u \in P.users, c \in P.codes, ct \in P.times, mv \in P.moves :
       LET r == [NewReq(P, "finish", u, c) EXCEPT !.ct = ct, !.mv = mv]
           found == RoomsByCode(c, {"playing"}) IN
       IF found = {}
         THEN reqs' = Compact([reqs EXCEPT ![s] = Done(r, "notFound")])
         ELSE \E i \in found :
                reqs' = [reqs EXCEPT ![s] = [r EXCEPT !.pc = "markFinished", !.rid = i, !.room = rooms[i]]]
  /\ Race(P, s)
  /\ UNCHANGED <<rooms, players, gameRecords, now>>
  /\ UNCHANGED econVars

FinishMark(s) ==
  /\ At(s, "finish", "markFinished")
  /\ players' = {IF p.room = reqs[s].rid /\ p.user = reqs[s].user
                   THEN [p EXCEPT !.status = "finished", !.ctime = reqs[s].ct,
                                  !.moves = reqs[s].mv, !.finishedAt = now]
                   ELSE p : p \in players}
  /\ Goto(s, "countFinished")
  /\ UNCHANGED <<rooms, gameRecords, now, races>>
  /\ UNCHANGED econVars

\* Variant of the closure test that closes on the first finished player.
FinishCountAny(s) ==
  /\ At(s, "finish", "countFinished")
  /\ LET total == Cardinality(PlayersOf(reqs[s].rid))
         finished_count == SumWhere(reqs[s].rid, "finished") IN
     IF finished_count >= 1
       THEN reqs' = [reqs EXCEPT ![s].pc = "closeGame", ![s].total = total]
       ELSE Respond(s, "ok")
  /\ UNCHANGED <<rooms, players, gameRecords, now, races>>
  /\ UNCHANGED econVars

FinishCount(s) ==
  /\ At(s, "finish", "countFinished")
  /\ LET total == Cardinality(PlayersOf(reqs[s].rid))
         finished_count == SumWhere(reqs[s].rid, "finished") IN
     IF finished_count = total
       THEN reqs' = [reqs EXCEPT ![s].pc = "closeGame", ![s].total = total]
       ELSE Respond(s, "ok")
  /\ UNCHANGED <<rooms, players, gameRecords, now, races>>
  /\ UNCHANGED econVars

FinishCloseGame(s) ==
  /\ At(s, "finish", "closeGame")
  /\ rooms' = [rooms EXCEPT ![reqs[s].rid].status = "finished",
                            ![reqs[s].rid].finishedAt = now]
  /\ Goto(s, "rank")
  /\ UNCHANGED <<players, gameRecords, now, races>>
  /\ UNCHANGED econVars

FinishRank(s) ==
  /\ At(s, "finish", "rank")
  /\ players' = {IF p.room = reqs[s].rid THEN [p EXCEPT !.rank = RankOf(p)] ELSE p
                   : p \in players}
  /\ Goto(s, "winner")
  /\ UNCHANGED <<rooms, gameRecords, now, races>>
  /\ UNCHANGED econVars

\* winnerResult[0].user_id of an empty result throws.
FinishWinner(s) ==
  /\ At(s, "finish", "winner")
  /\ IF PlayersOf(reqs[s].rid) = {}
       THEN Respond(s, "error")
       ELSE \E p \in FirstByOrder(reqs[s].rid) :
              reqs' = [reqs EXCEPT ![s].pc = "insertRecord", ![s].winner = p.user]
  /\ UNCHANGED <<rooms, players, gameRecords, now, races>>
  /\ UNCHANGED econVars

FinishInsertRecord(s) ==
  /\ At(s, "finish", "insertRecord")
  /\ gameRecords' = gameRecords \cup
       {[id |-> Cardinality(gameRecords) + 1,
         room |-> reqs[s].rid,
         totalPlayers |-> reqs[s].total,
         winner |-> reqs[s].winner,
         round |-> reqs[s].room.round]}
  /\ reqs' = Compact([reqs EXCEPT ![s] = Done([reqs[s] EXCEPT !.gameEnded = TRUE], "ok")])
  /\ UNCHANGED <<rooms, players, now, races>>
  /\ UNCHANGED econVars

\* -------------------------------------------------------- resetRoom
ResetBegin(P, s) ==
  /\ CanBegin(P, s)
  /\ \E u \in P.users, c \in P.codes :
       LET r == NewReq(P, "reset", u, c)
           found == RoomsByCode(c, {"finished"}) IN
       IF found = {}
         THEN reqs' = Compact([reqs EXCEPT ![s] = Done(r, "notFound")])
         ELSE \E i \in found :
                reqs' = [reqs EXCEPT ![s] = [r EXCEPT !.pc = "checkPlayer", !.rid = i, !.room = rooms[i]]]
  /\ Race(P, s)
  /\ UNCHANGED <<rooms, players, gameRecords, now>>
  /\ UNCHANGED econVars

ResetCheckPlayer(s) ==
  /\ At(s, "reset", "checkPlayer")
  /\ IF Member(reqs[s].rid, reqs[s].user) = {}
       THEN Respond(s, "playerNotFound")
       ELSE Goto(s, "roomWaiting")
  /\ UNCHANGED <<rooms, players, gameRecords, now, races>>
  /\ UNCHANGED econVars

ResetRoomWaiting(s) ==
  /\ At(s, "reset", "roomWaiting")
  /\ rooms' = [rooms EXCEPT ![reqs[s].rid].status = "waiting",
                            ![reqs[s].rid].startedAt = NULL,
                            ![reqs[s].rid].finishedAt = NULL]
  /\ Goto(s, "clearPlayers")
  /\ UNCHANGED <<players, gameRecords, now, races>>
  /\ UNCHANGED econVars

ResetClearPlayers(s) ==
  /\ At(s, "reset", "clearPlayers")
  /\ players' = {IF p.room = reqs[s].rid
                   THEN [p EXCEPT !.status = "joined", !.ctime = NULL, !.moves = NULL,
                                  !.rank = NULL, !.readyAt = NULL, !.finishedAt = NULL]
                   ELSE p : p \in players}
  /\ Respond(s, "ok")
  /\ UNCHANGED <<rooms, gameRecords, now, races>>
  /\ UNCHANGED econVars

\* ============================================================ economy
\* Rewards, levels and achievements (games, users and achievements routes).
\* These handlers run their statements inside transaction().

Max(a, b) == IF a >= b THEN a ELSE b
Min(a, b) == IF a <= b THEN a ELSE b

\* Variant of the level threshold without the offset of 100.
getRequiredExpFlat(level) == IF level <= 1 THEN 0 ELSE 200 * level

getRequiredExpForLevel(level) == IF level <= 1 THEN 0 ELSE 200 * level - 100

\* The while loop of calculateLevelFromExp, entered with level.
RECURSIVE LevelLoop(_, _)
LevelLoop(level, totalExp) ==
  IF getRequiredExpForLevel(level + 1) <= totalExp
    THEN LevelLoop(level + 1, totalExp)
    ELSE level

calculateLevelFromExp(totalExp) ==
  IF totalExp <= 0 THEN 1 ELSE LevelLoop(1, totalExp)

baseRewards ==
  [easy |-> [coins |-> 10, experience |-> 15],
   medium |-> [coins |-> 20, experience |-> 25],
   hard |-> [coins |-> 35, experience |-> 40],
   expert |-> [coins |-> 50, experience |-> 60]]

speedThresholds == [easy |-> 180, medium |-> 300, hard |-> 600, expert |-> 900]

\* Math.floor(x * 0.5), Math.floor(x * 0.3), Math.floor(x * 0.2) on the
\* integers x that occur (the products are exact enough for the floor).
FloorHalf(x) == (x * 5) \div 10
FloorThreeTenths(x) == (x * 3) \div 10
FloorFifth(x) == (x * 2) \div 10

\* rewards is the object of baseRewards itself: every bonus is added to it in
\* place and the next bonus reads the increased value.
calculateGameRewards(gameData) ==
  LET base == baseRewards[gameData.difficulty]
      efficient ==
        IF 2 * gameData.moves <= 3 * gameData.totalPieces
          THEN [coins |-> base.coins + FloorHalf(base.coins),
                experience |-> base.experience + FloorThreeTenths(base.experience)]
          ELSE base
      fast ==
        IF gameData.completionTime <= speedThresholds[gameData.difficulty]
          THEN [coins |-> efficient.coins + FloorThreeTenths(efficient.coins),
                experience |-> efficient.experience + FloorFifth(efficient.experience)]
          ELSE efficient
  IN  IF gameData.totalPieces >= 25
        THEN [coins |-> fast.coins + 10, experience |-> fast.experience + 15]
        ELSE IF gameData.totalPieces >= 16
          THEN [coins |-> fast.coins + 5, experience |-> fast.experience + 8]
          ELSE fast

baseScores == [easy |-> 100, medium |-> 200, hard |-> 350, expert |-> 500]

calculateGameScore(gameData) ==
  LET timeBonus == Max(0, 1000 - gameData.completionTime)
      movesPenalty == Max(0, gameData.moves - gameData.totalPieces)
  IN  Max(baseScores[gameData.difficulty] + gameData.totalPieces * 5
            + timeBonus \div 10 - movesPenalty * 2, 0)

\* ------------------------------------------------------ economy rows
Users == 1..MaxUsers
TxSlots == 1..MaxTxs

\* The row that registration inserts: the column defaults of user_stats.
NewStats ==
  [exists |-> TRUE, level |-> 1, experience |-> 0, coins |-> 500,
   totalScore |-> 0, gamesCompleted |-> 0]

\* No user_stats row for the user.
NoStats == [NewStats EXCEPT !.exists = FALSE]

\* The seeded achievements that the requests name.
achievements ==
  [first_game |-> [maxProgress |-> 1, rewardCoins |-> 10, rewardExperience |-> 10],
   efficient_solver |-> [maxProgress |-> 3, rewardCoins |-> 250, rewardExperience |-> 180]]

AchievementIds == DOMAIN achievements

\* No user_achievements row for the pair.
NoProgress ==
  [exists |-> FALSE, progress |-> 0, isUnlocked |-> FALSE, unlockedAt |-> NULL]

NoGame ==
  [difficulty |-> "easy", pieceShape |-> "square", gridSize |-> "0x0",
   totalPieces |-> 0, moves |-> 0, completionTime |-> 0]
NoGain == [coins |-> 0, experience |-> 0]

NoTx ==
  [op |-> "idle", user |-> 0, game |-> NoGame, gain |-> NoGain, ach |-> "",
   delta |-> 0, batch |-> <<>>, seen |-> NewStats,
   seenAch |-> [a \in AchievementIds |-> NoProgress], seenBest |-> {}]

NoResp ==
  [op |-> "none", user |-> 0, game |-> NoGame, gain |-> NoGain, ach |-> "",
   delta |-> 0, batch |-> <<>>, res |-> "none",
   pre |-> NewStats, preAch |-> [a \in AchievementIds |-> NoProgress],
   rewards |-> NoGain, score |-> 0, leveledUp |-> FALSE,
   alreadyUnlocked |-> FALSE, wasUnlocked |-> FALSE, rewardsGiven |-> FALSE,
   unlocked |-> <<>>, updated |-> <<>>,
   newRecord |-> FALSE, addedToLeaderboard |-> FALSE,
   preRecords |-> EmptyBag, preBest |-> {}, preBoard |-> EmptyBag]

\* An economy scope E names the transactions that may be open at once, the
\* users, the number of requests and the request bodies.
TxFree(E, t) ==
  /\ t \in E.txs
  /\ txs[t].op = "idle"
  /\ \A v \in E.txs : v < t => txs[v].op # "idle"
  /\ ops < E.maxOps

TxAt(t, op) == txs[t].op = op

\* The first read of the transaction: the rows as this transaction sees them.
Open(t, op, u) ==
  [NoTx EXCEPT !.op = op, !.user = u, !.seen = userStats[u],
               !.seenAch = userAchievements[u],
               !.seenBest = {b \in bestTimes : b.user = u}]

\* The transaction is over; open transactions keep the lowest slots.
CloseTx(t) ==
  LET open == SelectSeq([i \in 1..MaxTxs |-> IF i = t THEN NoTx ELSE txs[i]],
                        LAMBDA x : x.op # "idle")
  IN  txs' = [i \in TxSlots |-> IF i <= Len(open) THEN open[i] ELSE NoTx]

\* The response of transaction t, with the rows as they were before it
\* committed.
Response(t, res) ==
  [NoResp EXCEPT !.op = txs[t].op, !.user = txs[t].user, !.game = txs[t].game,
                 !.gain = txs[t].gain, !.ach = txs[t].ach, !.delta = txs[t].delta,
                 !.batch = txs[t].batch, !.res = res,
                 !.pre = userStats[txs[t].user],
                 !.preAch = userAchievements[txs[t].user],
                 !.preRecords = soloRecords, !.preBest = bestTimes,
                 !.preBoard = leaderboard]

Credit(u, c, e) ==
  credited' = [credited EXCEPT ![u] = [coins |-> @.coins + c,
                                       experience |-> @.experience + e]]

\* ----------------------------------------------- POST /games/complete
CompleteBegin(E, t) ==
  /\ TxFree(E, t)
  /\ \E u \in E.users, g \in E.games :
       txs' = [txs EXCEPT ![t] = [Open(t, "complete", u) EXCEPT !.game = g]]
  /\ ops' = ops + 1
  /\ UNCHANGED <<userStats, userAchievements, resp, credited, grants>>
  /\ UNCHANGED roomVars
  /\ UNCHANGED gameVars

\* Variant that also reports a level that stayed the same.
leveledUpOrSame(newLevel, stats) == newLevel >= stats.level

leveledUp(newLevel, stats) == newLevel > stats.level

\* The configuration that a best time is kept for.
SameConfig(b, g) ==
  /\ b.difficulty = g.difficulty
  /\ b.pieceShape = g.pieceShape
  /\ b.gridSize = g.gridSize

\* bestRecord is bestRecords[0]: the empty set stands for undefined.
isNewRecord(currentGame, bestRecord) ==
  \/ bestRecord = {}
  \/ \E b \in bestRecord :
       \/ currentGame.completionTime < b.bestTime
       \/ /\ currentGame.completionTime = b.bestTime
          /\ currentGame.moves < b.bestMoves

\* INSERT ... ON DUPLICATE KEY UPDATE on user_best_times. The assignments of
\* the UPDATE part are evaluated from left to right: best_time in the CASE of
\* best_moves is the value that the first assignment has just stored.
UpsertBestTime(u, g) ==
  LET cur == {b \in bestTimes : b.user = u /\ SameConfig(b, g)}
      Updated(b) ==
        LET time == Min(b.bestTime, g.completionTime)
            moves == IF time > g.completionTime THEN g.moves
                     ELSE IF time = g.completionTime THEN Min(b.bestMoves, g.moves)
                     ELSE b.bestMoves
        IN  [b EXCEPT !.bestTime = time, !.bestMoves = moves]
  IN  IF cur = {}
        THEN bestTimes \cup
               {[user |-> u, difficulty |-> g.difficulty, pieceShape |-> g.pieceShape,
                 gridSize |-> g.gridSize, bestTime |-> g.completionTime,
                 bestMoves |-> g.moves]}
        ELSE (bestTimes \ cur) \cup {Updated(b) : b \in cur}

\* Variant that adds new records only.
shouldAddOnRecordOnly(newRecord, score) == newRecord

shouldAddToLeaderboard(newRecord, score) == newRecord \/ score > 1000

\* The statements of the transaction and the commit: coins, total_score and
\* games_completed are incremented in the UPDATE, experience and level are
\* written as computed from the row that the SELECT returned. Without a
\* user_stats row the callback throws and everything is rolled back.
CompleteCommit(t) ==
  /\ TxAt(t, "complete")
  /\ LET u == txs[t].user
         g == txs[t].game
         stats == txs[t].seen
         rewards == calculateGameRewards(g)
         score == calculateGameScore(g)
         newRecord == isNewRecord(g, {b \in txs[t].seenBest : SameConfig(b, g)})
         newExperience == stats.experience + rewards.experience
         newLevel == calculateLevelFromExp(newExperience)
         added == shouldAddToLeaderboard(newRecord, score)
     IN  IF ~stats.exists
           THEN /\ resp' = Response(t, "error")
                /\ UNCHANGED <<userStats, credited, gameVars>>
           ELSE /\ soloRecords' =
                     soloRecords (+) SetToBag({[user |-> u, game |-> g, score |-> score,
                                                coins |-> rewards.coins,
                                                experience |-> rewards.experience]})
                /\ bestTimes' = IF newRecord THEN UpsertBestTime(u, g) ELSE bestTimes
                /\ userStats' =
                     [userStats EXCEPT ![u] =
                        [@ EXCEPT !.level = newLevel, !.experience = newExperience,
                                  !.coins = @ + rewards.coins,
                                  !.totalScore = @ + score,
                                  !.gamesCompleted = @ + 1]]
                /\ leaderboard' =
                     IF added
                       THEN leaderboard (+)
                              SetToBag({[user |-> u, difficulty |-> g.difficulty,
                                         pieceShape |-> g.pieceShape,
                                         gridSize |-> g.gridSize,
                                         completionTime |-> g.completionTime,
                                         moves |-> g.moves, score |-> score]})
                       ELSE leaderboard
                /\ resp' = [Response(t, "ok") EXCEPT !.rewards = rewards, !.score = score,
                                                     !.leveledUp = leveledUp(newLevel, stats),
                                                     !.newRecord = newRecord,
                                                     !.addedToLeaderboard = added]
                /\ Credit(u, rewards.coins, rewards.experience)
  /\ CloseTx(t)
  /\ UNCHANGED <<userAchievements, grants, ops>>
  /\ UNCHANGED roomVars


\* ------------------------------------------------- POST /users/rewards
RewardsBegin(E, t) ==
  /\ TxFree(E, t)
  /\ \E u \in E.users, g \in E.gains :
       txs' = [txs EXCEPT ![t] = [Open(t, "rewards", u) EXCEPT !.gain = g]]
  /\ ops' = ops + 1
  /\ UNCHANGED <<userStats, userAchievements, resp, credited, grants>>
  /\ UNCHANGED roomVars
  /\ UNCHANGED gameVars

\* All three columns are written as computed from the row that the SELECT
\* returned; a missing row or a negative balance throws and the transaction
\* rolls back.
RewardsCommit(t) ==
  /\ TxAt(t, "rewards")
  /\ LET u == txs[t].user
         stats == txs[t].seen
         newCoins == stats.coins + txs[t].gain.coins
         newExperience == stats.experience + txs[t].gain.experience
         newLevel == calculateLevelFromExp(newExperience)
     IN  IF ~stats.exists \/ newCoins < 0
           THEN /\ resp' = Response(t, "error")
                /\ UNCHANGED <<userStats, credited>>
           ELSE /\ userStats' =
                     [userStats EXCEPT ![u] =
                        [@ EXCEPT !.coins = newCoins, !.experience = newExperience,
                                  !.level = newLevel]]
                /\ resp' = [Response(t, "ok") EXCEPT !.leveledUp = leveledUp(newLevel, stats)]
                /\ Credit(u, txs[t].gain.coins, txs[t].gain.experience)
  /\ CloseTx(t)
  /\ UNCHANGED <<userAchievements, grants, ops>>
  /\ UNCHANGED roomVars
  /\ UNCHANGED gameVars

\* ------------------------------------------- POST /achievements/unlock
\* Variant of the new row without the cap at max_progress.
UpdateProgressUncapped(row, progress, achievement) ==
  LET newProgress == IF row.exists THEN row.progress + progress ELSE progress
      wasUnlocked == newProgress >= achievement.maxProgress
  IN  [exists |-> TRUE, progress |-> newProgress, isUnlocked |-> wasUnlocked,
       unlockedAt |-> IF wasUnlocked THEN now ELSE NULL]

\* The row of user_achievements after progress is added to it: the UPDATE of
\* an existing row or the INSERT of a new one.
UpdateProgress(row, progress, achievement) ==
  LET newProgress ==
        IF row.exists
          THEN Min(row.progress + progress, achievement.maxProgress)
          ELSE Min(progress, achievement.maxProgress)
      wasUnlocked == newProgress >= achievement.maxProgress
  IN  [exists |-> TRUE, progress |-> newProgress, isUnlocked |-> wasUnlocked,
       unlockedAt |-> IF wasUnlocked THEN now ELSE NULL]

\* Variant that never takes a row for unlocked.
AlreadyUnlockedNever(row) == FALSE

\* userAchievements.length > 0 and userAchievement.is_unlocked
AlreadyUnlocked(row) == row.exists /\ row.isUnlocked

\* The achievement is looked up before the transaction: an unknown id is
\* answered at once.
UnlockBegin(E, t) ==
  /\ TxFree(E, t)
  /\ \E u \in E.users, a \in E.achs, d \in E.deltas :
       IF a \in AchievementIds
         THEN /\ txs' = [txs EXCEPT ![t] = [Open(t, "unlock", u) EXCEPT !.ach = a, !.delta = d]]
              /\ UNCHANGED resp
         ELSE /\ resp' = [NoResp EXCEPT !.op = "unlock", !.user = u, !.ach = a,
                                        !.delta = d, !.res = "notFound",
                                        !.pre = userStats[u],
                                        !.preAch = userAchievements[u]]
              /\ UNCHANGED txs
  /\ ops' = ops + 1
  /\ UNCHANGED <<userStats, userAchievements, credited, grants>>
  /\ UNCHANGED roomVars
  /\ UNCHANGED gameVars

\* Variant of the reward condition that credits on the unlock only.
RewardDueOnUnlock(wasUnlocked, achievement) ==
  wasUnlocked /\ (achievement.rewardCoins > 0 \/ achievement.rewardExperience > 0)

\* wasUnlocked && reward_coins > 0 || reward_experience > 0
RewardDue(wasUnlocked, achievement) ==
  (wasUnlocked /\ achievement.rewardCoins > 0) \/ achievement.rewardExperience > 0

UnlockCommit(t) ==
  /\ TxAt(t, "unlock")
  /\ LET u == txs[t].user
         a == txs[t].ach
         achievement == achievements[a]
         row == txs[t].seenAch[a]
         new == UpdateProgress(row, txs[t].delta, achievement)
         rewardsGiven == RewardDue(new.isUnlocked, achievement)
     IN  IF AlreadyUnlocked(row)
           THEN /\ resp' = [Response(t, "ok") EXCEPT !.alreadyUnlocked = TRUE]
                /\ UNCHANGED <<userStats, userAchievements, credited, grants>>
           ELSE IF ~row.exists /\ userAchievements[u][a].exists
             THEN \* UNIQUE (user_id, achievement_id): the INSERT throws
                  /\ resp' = Response(t, "error")
                  /\ UNCHANGED <<userStats, userAchievements, credited, grants>>
             ELSE /\ userAchievements' = [userAchievements EXCEPT ![u][a] = new]
                  /\ resp' = [Response(t, "ok") EXCEPT !.wasUnlocked = new.isUnlocked,
                                                       !.rewardsGiven = rewardsGiven]
                  /\ IF rewardsGiven /\ userStats[u].exists
                       THEN /\ userStats' =
                                 [userStats EXCEPT ![u] =
                                    [@ EXCEPT !.coins = @ + achievement.rewardCoins,
                                              !.experience = @ + achievement.rewardExperience]]
                            /\ Credit(u, achievement.rewardCoins, achievement.rewardExperience)
                            /\ grants' = [grants EXCEPT ![u][a] = @ + 1]
                       ELSE UNCHANGED <<userStats, credited, grants>>
  /\ CloseTx(t)
  /\ UNCHANGED ops
  /\ UNCHANGED roomVars
  /\ UNCHANGED gameVars

\* ------------------------------------- POST /achievements/batch-update
\* One turn of the for loop over the updates. acc holds the rows as the
\* transaction sees them, the two lists and the rewards credited so far.
BatchStep(acc, update) ==
  IF update.achievementId \notin AchievementIds
    THEN acc
    ELSE
      LET a == update.achievementId
          achievement == achievements[a]
          row == acc.rows[a]
          new == UpdateProgress(row, update.progress, achievement)
          data == [id |-> a, progress |-> new.progress, isUnlocked |-> new.isUnlocked]
          rewarded == achievement.rewardCoins > 0 \/ achievement.rewardExperience > 0
      IN  IF AlreadyUnlocked(row)
            THEN acc
            ELSE IF new.isUnlocked
              THEN [acc EXCEPT !.rows[a] = new,
                               !.unlocked = Append(@, data),
                               !.coins = IF rewarded THEN @ + achievement.rewardCoins ELSE @,
                               !.experience = IF rewarded THEN @ + achievement.rewardExperience ELSE @,
                               !.granted = IF rewarded THEN Append(@, a) ELSE @]
              ELSE [acc EXCEPT !.rows[a] = new, !.updated = Append(@, data)]

RECURSIVE BatchLoop(_, _, _)
BatchLoop(updates, i, acc) ==
  IF i > Len(updates)
    THEN acc
    ELSE BatchLoop(updates, i + 1, BatchStep(acc, updates[i]))

\* An empty list is answered before the transaction.
BatchBegin(E, t) ==
  /\ TxFree(E, t)
  /\ \E u \in E.users, b \in E.batches :
       IF b # <<>>
         THEN /\ txs' = [txs EXCEPT ![t] = [Open(t, "batch", u) EXCEPT !.batch = b]]
              /\ UNCHANGED resp
         ELSE /\ resp' = [NoResp EXCEPT !.op = "batch", !.user = u, !.res = "empty",
                                        !.pre = userStats[u],
                                        !.preAch = userAchievements[u]]
              /\ UNCHANGED txs
  /\ ops' = ops + 1
  /\ UNCHANGED <<userStats, userAchievements, credited, grants>>
  /\ UNCHANGED roomVars
  /\ UNCHANGED gameVars

BatchCommit(t) ==
  /\ TxAt(t, "batch")
  /\ LET u == txs[t].user
         seen == txs[t].seenAch
         acc == BatchLoop(txs[t].batch, 1,
                          [rows |-> seen, unlocked |-> <<>>, updated |-> <<>>,
                           coins |-> 0, experience |-> 0, granted |-> <<>>])
     IN  /\ userAchievements' =
              [userAchievements EXCEPT ![u] =
                 [a \in AchievementIds |->
                    IF acc.rows[a] # seen[a] THEN acc.rows[a] ELSE @[a]]]
         /\ IF userStats[u].exists
              THEN /\ userStats' =
                        [userStats EXCEPT ![u] =
                           [@ EXCEPT !.coins = @ + acc.coins,
                                     !.experience = @ + acc.experience]]
                   /\ Credit(u, acc.coins, acc.experience)
              ELSE UNCHANGED <<userStats, credited>>
         /\ grants' =
              [grants EXCEPT ![u] =
                 [a \in AchievementIds |->
                    @[a] + Cardinality({i \in 1..Len(acc.granted) : acc.granted[i] = a})]]
         /\ resp' = [Response(t, "ok") EXCEPT !.unlocked = acc.unlocked,
                                              !.updated = acc.updated]
  /\ CloseTx(t)
  /\ UNCHANGED ops
  /\ UNCHANGED roomVars
  /\ UNCHANGED gameVars

\* ------------------------------------------ POST /users/reset-progress
\* The statements only write; the transaction is taken as one step. The
\* credits of the user start over with the rows.
ResetProgress(E) ==
  /\ \E t \in E.txs : TxFree(E, t)
  /\ \E u \in E.users :
       /\ userStats' = [userStats EXCEPT ![u] = IF @.exists THEN NewStats ELSE @]
       /\ soloRecords' = [r \in {x \in DOMAIN soloRecords : x.user # u} |-> soloRecords[r]]
       /\ bestTimes' = {b \in bestTimes : b.user # u}
       /\ leaderboard' = [r \in {x \in DOMAIN leaderboard : x.user # u} |-> leaderboard[r]]
       /\ userAchievements' =
            [userAchievements EXCEPT ![u] = [a \in AchievementIds |-> NoProgress]]
       /\ credited' = [credited EXCEPT ![u] = NoGain]
       /\ grants' = [grants EXCEPT ![u] = [a \in AchievementIds |-> 0]]
       /\ resp' = [NoResp EXCEPT !.op = "reset", !.user = u, !.res = "ok",
                                 !.pre = userStats[u],
                                 !.preAch = userAchievements[u],
                                 !.preRecords = soloRecords, !.preBest = bestTimes,
                                 !.preBoard = leaderboard]
  /\ ops' = ops + 1
  /\ UNCHANGED txs
  /\ UNCHANGED roomVars

\* The response is sent and the request is over.
Retire(s) ==
  /\ reqs[s].pc = "done"
  /\ reqs' = Compact([reqs EXCEPT ![s] = Idle])
  /\ UNCHANGED <<rooms, players, gameRecords, now, races>>
  /\ UNCHANGED econVars

\* query() rethrows what the storage throws (a lost connection, a deadlock, a
\* timeout): the statement the handler in slot s is about to run fails, the
\* handler's catch answers 500, and what its earlier statements wrote stays.
\* isRoomCodeExists alone catches the error itself.
StatementFails(s) ==
  /\ Running(s)
  /\ ~At(s, "create", "generate")
  /\ Respond(s, "error")
  /\ UNCHANGED <<rooms, players, gameRecords, now, races>>
  /\ UNCHANGED econVars

\* NOW(): the clock of the storage, one second per tick.
Tick ==
  /\ now < MaxTime
  /\ now' = now + 1
  /\ UNCHANGED <<rooms, players, gameRecords, reqs, races>>
  /\ UNCHANGED econVars

Init ==
  /\ rooms = <<>>
  /\ players = {}
  /\ gameRecords = {}
  /\ now = 0
  /\ reqs = [s \in Slots |-> Idle]
  /\ races = 0
  /\ userStats = [u \in Users |-> NewStats]
  /\ userAchievements = [u \in Users |-> [a \in AchievementIds |-> NoProgress]]
  /\ txs = [t \in TxSlots |-> NoTx]
  /\ resp = NoResp
  /\ credited = [u \in Users |-> NoGain]
  /\ grants = [u \in Users |-> [a \in AchievementIds |-> 0]]
  /\ ops = 0
  /\ soloRecords = EmptyBag
  /\ bestTimes = {}
  /\ leaderboard = EmptyBag

\* The tables with the user_stats row of user 1 missing: the row is a row of
\* its own table and the handlers test for its absence.
InitOrphan ==
  /\ rooms = <<>>
  /\ players = {}
  /\ gameRecords = {}
  /\ now = 0
  /\ reqs = [s \in Slots |-> Idle]
  /\ races = 0
  /\ userStats = [u \in Users |-> IF u = 1 THEN NoStats ELSE NewStats]
  /\ userAchievements = [u \in Users |-> [a \in AchievementIds |-> NoProgress]]
  /\ txs = [t \in TxSlots |-> NoTx]
  /\ resp = NoResp
  /\ credited = [u \in Users |-> NoGain]
  /\ grants = [u \in Users |-> [a \in AchievementIds |-> 0]]
  /\ ops = 0
  /\ soloRecords = EmptyBag
  /\ bestTimes = {}
  /\ leaderboard = EmptyBag

Handlers(P) ==
  \E s \in P.slots :
    \/ CreateBegin(P, s)
    \/ CreateGenerate(P, s)
    \/ CreateInsertRoom(s)
    \/ CreateInsertHost(s)
    \/ JoinBegin(P, s)
    \/ JoinFindRoom(s)
    \/ JoinCheckMember(s)
    \/ JoinInsertPlayer(s)
    \/ JoinCountUp(s)
    \/ LeaveBegin(P, s)
    \/ LeaveFindPlayer(s)
    \/ LeaveDeletePlayer(s)
    \/ LeaveCountDown(s)
    \/ LeaveFindRemaining(s)
    \/ LeaveSetHostFlag(s)
    \/ LeaveSetHostUser(s)
    \/ LeaveCloseRoom(s)
    \/ ReadyBegin(P, s)
    \/ ReadyMark(s)
    \/ ReadyCount(s)
    \/ ReadyRoom(s)
    \/ StartBegin(P, s)
    \/ StartLoadPlayers(s)
    \/ StartSetPlaying(s)
    \/ StartPlayersPlaying(s)
    \/ FinishBegin(P, s)
    \/ FinishMark(s)
    \/ FinishCount(s)
    \/ FinishCloseGame(s)
    \/ FinishRank(s)
    \/ FinishWinner(s)
    \/ FinishInsertRecord(s)
    \/ ResetBegin(P, s)
    \/ ResetCheckPlayer(s)
    \/ ResetRoomWaiting(s)
    \/ ResetClearPlayers(s)

\* The handlers of a room that has not started: create, join, leave, ready.
LobbyHandlers(P) ==
  \E s \in P.slots :
    \/ CreateBegin(P, s)
    \/ CreateGenerate(P, s)
    \/ CreateInsertRoom(s)
    \/ CreateInsertHost(s)
    \/ JoinBegin(P, s)
    \/ JoinFindRoom(s)
    \/ JoinCheckMember(s)
    \/ JoinInsertPlayer(s)
    \/ JoinCountUp(s)
    \/ LeaveBegin(P, s)
    \/ LeaveFindPlayer(s)
    \/ LeaveDeletePlayer(s)
    \/ LeaveCountDown(s)
    \/ LeaveFindRemaining(s)
    \/ LeaveSetHostFlag(s)
    \/ LeaveSetHostUser(s)
    \/ LeaveCloseRoom(s)
    \/ ReadyBegin(P, s)
    \/ ReadyMark(s)
    \/ ReadyCount(s)
    \/ ReadyRoom(s)

Serial ==
  [slots |-> {1}, users |-> 1..MaxUsers, codes |-> 1..MaxCodes,
   sizes |-> MaxPlayersChoices,
   times |-> CompletionTimes, moves |-> MovesCounts, rounds |-> MaxRounds,
   races |-> 0, keep |-> TRUE]

\* Two requests at a time, within one second of the clock.
Concurrent ==
  [slots |-> Slots, users |-> 1..ConcUsers, codes |-> 1..MaxCodes,
   sizes |-> MaxPlayersChoices,
   times |-> CompletionTimes, moves |-> MovesCounts, rounds |-> ConcMaxRounds,
   races |-> MaxRaces, keep |-> FALSE]

\* One room played twice, within one second of the clock.
Replay ==
  [slots |-> {1}, users |-> 1..MaxUsers, codes |-> 1..MaxCodes,
   sizes |-> MaxPlayersChoices,
   times |-> CompletionTimes, moves |-> MovesCounts, rounds |-> ReplayRounds,
   races |-> 0, keep |-> TRUE]

\* Two codes, so two rooms, within one second of the clock.
TwoRooms ==
  [slots |-> {1}, users |-> 1..RoomsUsers, codes |-> 1..RoomsCodes,
   sizes |-> MaxPlayersChoices,
   times |-> CompletionTimes, moves |-> MovesCounts, rounds |-> MaxRounds,
   races |-> 0, keep |-> TRUE]

\* Rooms of up to three players before the game starts, with the clock.
Lobby ==
  [slots |-> {1}, users |-> 1..MaxUsers, codes |-> 1..MaxCodes,
   sizes |-> MinPlayers..LobbyRoomSize,
   times |-> CompletionTimes, moves |-> MovesCounts, rounds |-> MaxRounds,
   races |-> 0, keep |-> TRUE]

\* Two users, one request at a time, any statement of which may fail; within
\* one second of the clock.
Faulty ==
  [slots |-> {1}, users |-> 1..FaultUsers, codes |-> 1..MaxCodes,
   sizes |-> MaxPlayersChoices,
   times |-> CompletionTimes, moves |-> MovesCounts, rounds |-> MaxRounds,
   races |-> 0, keep |-> TRUE]

\* ----------------------------------------------------- economy scopes
\* The game results of the completion requests.
Games ==
  {[difficulty |-> "easy", pieceShape |-> "square", gridSize |-> "3x3",
    totalPieces |-> 9, moves |-> 9, completionTime |-> 100],
   [difficulty |-> "hard", pieceShape |-> "square", gridSize |-> "4x4",
    totalPieces |-> 16, moves |-> 40, completionTime |-> 700],
   [difficulty |-> "expert", pieceShape |-> "square", gridSize |-> "10x10",
    totalPieces |-> 100, moves |-> 100, completionTime |-> 990]}

\* The pairs of a batch: any known or unknown id with any integer progress.
BatchPairs ==
  {[achievementId |-> a, progress |-> d] :
     a \in {"first_game", "efficient_solver", "no_such"}, d \in {-1, 1, 3}}

Batches ==
  {<<>>} \cup UNION {[1..n -> BatchPairs] : n \in 1..MaxBatch}

\* One user's requests, one transaction at a time.
Economy ==
  [txs |-> {1}, users |-> 1..1, maxOps |-> MaxEconOps, games |-> Games,
   gains |-> {[coins |-> 0, experience |-> 290], [coins |-> -600, experience |-> 0]},
   achs |-> {"first_game", "efficient_solver", "no_such"}, deltas |-> 0..2,
   batches |-> Batches]

EconHandlers(E) ==
  \/ \E t \in E.txs :
       \/ CompleteBegin(E, t)
       \/ CompleteCommit(t)
       \/ RewardsBegin(E, t)
       \/ RewardsCommit(t)
       \/ UnlockBegin(E, t)
       \/ UnlockCommit(t)
       \/ BatchBegin(E, t)
       \/ BatchCommit(t)
  \/ ResetProgress(E)

\* Two users whose experience is raised in small and large steps.
Leveling ==
  [txs |-> {1}, users |-> 1..EconUsers, maxOps |-> LevelOps,
   gains |-> {[coins |-> 0, experience |-> 1], [coins |-> 0, experience |-> 99],
              [coins |-> 0, experience |-> 200]}]

\* One user's requests, two transactions at a time.
EconomyConc ==
  [txs |-> TxSlots, users |-> 1..1, maxOps |-> ConcEconOps, games |-> Games,
   gains |-> {[coins |-> 20, experience |-> 100]},
   achs |-> {"first_game", "no_such"}, deltas |-> 1..1]

\* Two users who play a room and complete single-player games, one request
\* of each kind at a time, within one second of the clock.
Settling ==
  [slots |-> {1}, users |-> 1..EconUsers, codes |-> 1..MaxCodes,
   sizes |-> MaxPlayersChoices,
   times |-> CompletionTimes, moves |-> MovesCounts, rounds |-> MaxRounds,
   races |-> 0, keep |-> TRUE]

SettlingEcon ==
  [txs |-> {1}, users |-> 1..EconUsers, maxOps |-> SettleOps,
   games |-> {[difficulty |-> "easy", pieceShape |-> "square", gridSize |-> "3x3",
               totalPieces |-> 9, moves |-> 9, completionTime |-> 100]}]

\* Three users who create and join rooms, two requests at a time.
Crowd ==
  [slots |-> Slots, users |-> 1..MaxUsers, codes |-> 1..MaxCodes,
   sizes |-> MaxPlayersChoices,
   times |-> CompletionTimes, moves |-> MovesCounts, rounds |-> MaxRounds,
   races |-> MaxRaces, keep |-> FALSE]

\* Two users who complete one configuration in different times and moves.
Records ==
  [txs |-> {1}, users |-> 1..EconUsers, maxOps |-> RecordOps,
   games |-> {[difficulty |-> "easy", pieceShape |-> "square", gridSize |-> "3x3",
               totalPieces |-> 9, moves |-> m, completionTime |-> c] :
                 c \in {90, 100}, m \in {9, 14}}]

\* Two users, the first of them without a user_stats row, who complete games
\* and report achievement progress.
Orphans ==
  [txs |-> {1}, users |-> 1..EconUsers, maxOps |-> OrphanOps,
   games |-> {[difficulty |-> "easy", pieceShape |-> "square", gridSize |-> "3x3",
               totalPieces |-> 9, moves |-> 9, completionTime |-> 100]},
   achs |-> {"first_game", "efficient_solver"}, deltas |-> 1..1,
   batches |-> {<<[achievementId |-> "first_game", progress |-> 1]>>,
                <<[achievementId |-> "efficient_solver", progress |-> 1]>>}]

NextEcon == Tick \/ EconHandlers(Economy)
NextOrphan ==
  \E t \in Orphans.txs :
    \/ CompleteBegin(Orphans, t)
    \/ CompleteCommit(t)
    \/ UnlockBegin(Orphans, t)
    \/ UnlockCommit(t)
    \/ BatchBegin(Orphans, t)
    \/ BatchCommit(t)
NextRecords == \E t \in Records.txs : CompleteBegin(Records, t) \/ CompleteCommit(t)
NextEconConc ==
  \E t \in EconomyConc.txs :
    \/ CompleteBegin(EconomyConc, t)
    \/ CompleteCommit(t)
    \/ RewardsBegin(EconomyConc, t)
    \/ RewardsCommit(t)
    \/ UnlockBegin(EconomyConc, t)
    \/ UnlockCommit(t)
NextSettle ==
  \/ Retire(1)
  \/ Handlers(Settling)
  \/ \E t \in SettlingEcon.txs :
       CompleteBegin(SettlingEcon, t) \/ CompleteCommit(t)
NextJoin ==
  \E s \in Crowd.slots :
    \/ CreateBegin(Crowd, s)
    \/ CreateGenerate(Crowd, s)
    \/ CreateInsertRoom(s)
    \/ CreateInsertHost(s)
    \/ JoinBegin(Crowd, s)
    \/ JoinFindRoom(s)
    \/ JoinCheckMember(s)
    \/ JoinInsertPlayer(s)
    \/ JoinCountUp(s)
NextLevel == \E t \in Leveling.txs : RewardsBegin(Leveling, t) \/ RewardsCommit(t)

Next == Tick \/ Retire(1) \/ Handlers(Serial)
NextConc == Handlers(Concurrent)
NextReplay == Retire(1) \/ Handlers(Replay)
NextRooms == Retire(1) \/ Handlers(TwoRooms)
NextLobby == Tick \/ Retire(1) \/ LobbyHandlers(Lobby)
NextFault == Retire(1) \/ StatementFails(1) \/ Handlers(Faulty)

Spec == Init /\ [][Next]_vars
SpecConc == Init /\ [][NextConc]_vars
SpecReplay == Init /\ [][NextReplay]_vars
SpecRooms == Init /\ [][NextRooms]_vars
SpecLobby == Init /\ [][NextLobby]_vars
SpecFault == Init /\ [][NextFault]_vars
SpecEcon == Init /\ [][NextEcon]_vars
SpecEconConc == Init /\ [][NextEconConc]_vars
SpecSettle == Init /\ [][NextSettle]_vars
SpecJoin == Init /\ [][NextJoin]_vars
SpecLevel == Init /\ [][NextLevel]_vars
SpecRecords == Init /\ [][NextRecords]_vars
SpecOrphan == InitOrphan /\ [][NextOrphan]_vars

\* ================================================================ claims
\* No handler is between two of its statements.
Quiet == \A s \in Slots : ~Running(s)

\* The response of a recordFinish call that performed closure.
Closed(s) == reqs[s].op = "finish" /\ reqs[s].pc = "done" /\ reqs[s].gameEnded

Ranks(i) == {p.rank : p \in PlayersOf(i)}

\* (completionTime, movesCount, finishedAt) of p is lexicographically at most
\* that of q.
TupleLeq(p, q) ==
  \/ p.ctime < q.ctime
  \/ (p.ctime = q.ctime /\ p.moves < q.moves)
  \/ (p.ctime = q.ctime /\ p.moves = q.moves /\ p.finishedAt <= q.finishedAt)

\* C1: closure is performed exactly once per game round, under every
\* interleaving of recordFinish calls: no round of a room has two GameRecords,
\* and a room that has finished its round has the record of that round.
C1_ClosureOncePerRound ==
  /\ \A g, h \in gameRecords :
       (g.room = h.room /\ g.round = h.round) => g.id = h.id
  /\ Quiet =>
       \A i \in RoomIds :
         rooms[i].status = "finished" =>
           \E g \in gameRecords : g.room = i /\ g.round = rooms[i].round

\* C2: after closure of a room with N players the ranks are a permutation of
\* 1..N, and the player ranked 1 has the least (completionTime, movesCount,
\* finishedAt).
C2_RanksArePermutation ==
  \A s \in Slots :
    Closed(s) =>
      LET ps == PlayersOf(reqs[s].rid) IN
      /\ Ranks(reqs[s].rid) = 1..Cardinality(ps)
      /\ \A p \in ps : p.rank = 1 => \A q \in ps : TupleLeq(p, q)

\* C3: whenever no handler is running, current_players of every room is the
\* number of its player rows.
C3_CountMatchesRows ==
  Quiet => \A i \in RoomIds : rooms[i].currentPlayers = Cardinality(PlayersOf(i))

\* C4: every user is a player of at most one room that is waiting, ready or
\* playing.
C4_OneActiveRoomPerUser ==
  \A u \in 1..MaxUsers : Cardinality(existingRoomCheck(u)) <= 1

\* The precondition of startGame on the rows pr, pp: u is the host of a
\* waiting room with code c that has two players or more, all but the host
\* ready.
StartAllowed(pr, pp, u, c) ==
  \E i \in 1..Len(pr) :
    /\ pr[i].code = c /\ pr[i].host = u /\ pr[i].status = "waiting"
    /\ Cardinality({p \in pp : p.room = i}) >= 2
    /\ \A p \in pp : (p.room = i /\ p.user # u) => p.status = "ready"

C6_ReadyRoomStarts ==
  \A s \in Slots :
    (/\ reqs[s].op = "start" /\ reqs[s].pc = "done"
     /\ \E i \in 1..Len(reqs[s].pre[1]) :
          /\ reqs[s].pre[1][i].code = reqs[s].code
          /\ reqs[s].pre[1][i].host = reqs[s].user
          /\ reqs[s].pre[1][i].status = "ready"
          /\ Cardinality({p \in reqs[s].pre[2] : p.room = i}) >= 2
          /\ \A p \in reqs[s].pre[2] : p.room = i => p.status = "ready")
    => /\ reqs[s].res = "ok"
       /\ \E i \in RoomsByCode(reqs[s].code, {"playing"}) : TRUE

\* C7: recordFinish reports gameEnded, and the room is finished, exactly on
\* the call after which every player of the room is finished; until then the
\* room stays playing and gameEnded is false.
C7_GameEndedIffAllFinished ==
  \A s \in Slots :
    (reqs[s].op = "finish" /\ reqs[s].pc = "done") =>
      LET i == reqs[s].rid
          allFinished == /\ PlayersOf(i) # {}
                         /\ \A p \in PlayersOf(i) : p.status = "finished"
      IN
      /\ reqs[s].res # "ok" => ~reqs[s].gameEnded
      /\ reqs[s].res = "ok" =>
           /\ reqs[s].gameEnded <=> allFinished
           /\ reqs[s].gameEnded => rooms[i].status = "finished"
           /\ ~reqs[s].gameEnded => rooms[i].status = "playing"

C7_Witness ==
  \E s \in Slots :
    /\ Closed(s)
    /\ Cardinality(PlayersOf(reqs[s].rid)) >= 2
    /\ rooms[reqs[s].rid].status = "finished"

\* C8: the winner of the GameRecord created at closure is the one player whose
\* rank is 1.
C8_WinnerIsTheRankOne ==
  \A s \in Slots :
    Closed(s) =>
      \E g \in gameRecords :
        /\ g.id = Cardinality(gameRecords)
        /\ g.room = reqs[s].rid
        /\ {p \in PlayersOf(reqs[s].rid) : p.rank = 1} = Member(reqs[s].rid, g.winner)
        /\ Cardinality(Member(reqs[s].rid, g.winner)) = 1

\* C9: resetRoom on a finished room leaves the room waiting with both game
\* times cleared and every player joined with completionTime, movesCount,
\* rank, readyAt and finishedAt cleared; the round played after it ends in
\* finished with ranks 1..N.
C9_ResetThenReplay ==
  \A s \in Slots :
    /\ (reqs[s].op = "reset" /\ reqs[s].pc = "done" /\ reqs[s].res = "ok") =>
         /\ rooms[reqs[s].rid].status = "waiting"
         /\ rooms[reqs[s].rid].startedAt = NULL
         /\ rooms[reqs[s].rid].finishedAt = NULL
         /\ \A p \in PlayersOf(reqs[s].rid) :
              /\ p.status = "joined"
              /\ p.ctime = NULL /\ p.moves = NULL /\ p.rank = NULL
              /\ p.readyAt = NULL /\ p.finishedAt = NULL
    /\ (Closed(s) /\ rooms[reqs[s].rid].round >= 2) =>
         /\ rooms[reqs[s].rid].status = "finished"
         /\ Ranks(reqs[s].rid) = 1..Cardinality(PlayersOf(reqs[s].rid))

\* C10: whenever no handler is running, every room that is not closed and has
\* a player has exactly one player with isHost, and hostUserId is that player.
C10_ExactlyOneHost ==
  Quiet =>
    \A i \in RoomIds :
      (rooms[i].status # "closed" /\ PlayersOf(i) # {}) =>
        \E h \in PlayersOf(i) :
          /\ h.isHost
          /\ rooms[i].host = h.user
          /\ \A q \in PlayersOf(i) : q.isHost => q = h

\* The rows of room i in the player rows pp: the caller's and the others'.
RowsOf(pp, i, u) == {p \in pp : p.room = i /\ p.user = u}
OthersOf(pp, i, u) == {p \in pp : p.room = i /\ p.user # u}

C12_EmptyRoomIsClosed ==
  Quiet => \A i \in RoomIds : PlayersOf(i) = {} => rooms[i].status = "closed"

\* C13: setReady sets the caller's status to ready and stamps readyAt, and
\* changes no other player row; the room status is changed to ready if and
\* only if the room then has at least 2 players, all of them ready; otherwise
\* the room is unchanged. A rejected call changes nothing.
C13_ReadyMarksAndFlagsRoom ==
  \A s \in Slots :
    (reqs[s].op = "ready" /\ reqs[s].pc = "done") =>
      LET i == reqs[s].rid
          pr == reqs[s].pre[1]
          pp == reqs[s].pre[2]
          me == RowsOf(pp, i, reqs[s].user)
          allReady == /\ Cardinality(PlayersOf(i)) >= 2
                      /\ \A p \in PlayersOf(i) : p.status = "ready"
      IN
      /\ reqs[s].res # "ok" => (rooms = pr /\ players = pp)
      /\ reqs[s].res = "ok" =>
           /\ me # {}
           /\ \E t \in 0..MaxTime :
                players = (pp \ me) \cup
                          {[p EXCEPT !.status = "ready", !.readyAt = t] : p \in me}
           /\ rooms = IF allReady THEN [pr EXCEPT ![i].status = "ready"] ELSE pr

C13_Witness ==
  \E s \in Slots :
    /\ reqs[s].op = "ready" /\ reqs[s].pc = "done" /\ reqs[s].res = "ok"
    /\ reqs[s].pre[1][reqs[s].rid].status = "waiting"
    /\ rooms[reqs[s].rid].status = "ready"
    /\ Cardinality(PlayersOf(reqs[s].rid)) = 3

\* The first writing statement of each operation that names a source status:
\* the position before it, the position after it and the statuses the
\* operation is valid in.
FirstWrites ==
  { [op |-> "join", from |-> "insertPlayer", to |-> "countUp", src |-> {"waiting"}],
    [op |-> "ready", from |-> "markReady", to |-> "countReady", src |-> {"waiting", "ready"}],
    [op |-> "start", from |-> "setPlaying", to |-> "playersPlaying", src |-> {"waiting"}],
    [op |-> "finish", from |-> "markFinished", to |-> "countFinished", src |-> {"playing"}],
    [op |-> "reset", from |-> "roomWaiting", to |-> "clearPlayers", src |-> {"finished"}] }

\* The request in slot s executes the write w in this step.
Writes(s, w) ==
  /\ At(s, w.op, w.from)
  /\ reqs' = [reqs EXCEPT ![s].pc = w.to]

\* C14: under every interleaving, an operation writes only while the room is
\* in a status the operation is valid in (and, for resetRoom, while the caller
\* is a member): a call whose source status does not match when its write
\* takes effect changes nothing.
C14_WritesOnlyInSourceStatus ==
  [][\A s \in Slots : \A w \in FirstWrites :
       Writes(s, w) =>
         /\ rooms[reqs[s].rid].status \in w.src
         /\ w.op = "reset" => Member(reqs[s].rid, reqs[s].user) # {}]_vars

\* C15: recordFinish by a user who has no player row in the playing room is
\* answered NotFound and changes no row and creates no GameRecord.
C15_FinishByOutsiderIsNotFound ==
  \A s \in Slots :
    (/\ reqs[s].op = "finish" /\ reqs[s].pc = "done"
     /\ \A i \in 1..Len(reqs[s].pre[1]) :
          reqs[s].pre[1][i].code = reqs[s].code =>
            RowsOf(reqs[s].pre[2], i, reqs[s].user) = {})
    => /\ reqs[s].res \in {"notFound", "playerNotFound"}
       /\ ~reqs[s].gameEnded
       /\ rooms = reqs[s].pre[1]
       /\ players = reqs[s].pre[2]

\* C16: joinRoom fails when no room with that code is waiting, when the room
\* already has maxPlayers players or when the user is already a member; a
\* failed joinRoom inserts no row and leaves currentPlayers (and every other
\* column) unchanged; a successful one inserts the caller's row only.
C16_JoinFailsCleanly ==
  \A s \in Slots :
    (reqs[s].op = "join" /\ reqs[s].pc = "done") =>
      LET pr == reqs[s].pre[1]
          pp == reqs[s].pre[2]
          waiting == {i \in 1..Len(pr) :
                        pr[i].code = reqs[s].code /\ pr[i].status = "waiting"}
          mustFail ==
            \/ waiting = {}
            \/ \E i \in waiting :
                 \/ Cardinality({p \in pp : p.room = i}) >= pr[i].maxPlayers
                 \/ RowsOf(pp, i, reqs[s].user) # {}
      IN
      /\ mustFail => reqs[s].res # "ok"
      /\ reqs[s].res # "ok" => (rooms = pr /\ players = pp)
      /\ reqs[s].res = "ok" =>
           /\ Cardinality(players) = Cardinality(pp) + 1
           /\ players \ pp = Member(reqs[s].rid, reqs[s].user)
           /\ rooms = [pr EXCEPT ![reqs[s].rid].currentPlayers = @ + 1]

C16_Witness ==
  \E s \in Slots :
    /\ reqs[s].op = "join" /\ reqs[s].pc = "done" /\ reqs[s].res = "full"
    /\ \E i \in RoomsByCode(reqs[s].code, {"waiting"}) :
         /\ Cardinality(PlayersOf(i)) = rooms[i].maxPlayers
         /\ Member(i, reqs[s].user) = {}

CodeAlphabet ==
  {"A", "B", "C", "D", "E", "F", "G", "H", "I", "J", "K", "L", "M",
   "N", "O", "P", "Q", "R", "S", "T", "U", "V", "W", "X", "Y", "Z",
   "0", "1", "2", "3", "4", "5", "6", "7", "8", "9"}

\* C17: the code of every room is 8 characters of A-Z and 0-9, and no two
\* rooms that are both outside finished and closed have the same code, also
\* when createRoom calls interleave.
C17_CodesWellFormedAndDistinct ==
  \A i \in RoomIds :
    LET text == generateRoomCode(rooms[i].code) IN
    /\ Len(text) = 8
    /\ \A k \in 1..Len(text) : text[k] \in CodeAlphabet
    /\ \A j \in RoomIds :
         (/\ i # j
          /\ rooms[i].status \notin TerminalStatuses
          /\ rooms[j].status \notin TerminalStatuses)
         => generateRoomCode(rooms[j].code) # text

C17_Witness ==
  \E s \in Slots :
    /\ At(s, "create", "insertRoom")
    /\ isRoomCodeExists(reqs[s].code)
    /\ \E i \in RoomIds : rooms[i].status \notin TerminalStatuses

\* C18: createRoom succeeds when the code it generates is held by no room
\* outside finished and closed, even if a finished or closed room holds it.
C18_TerminalCodeIsReusable ==
  \A s \in Slots :
    (/\ reqs[s].op = "create" /\ reqs[s].pc = "done"
     /\ reqs[s].res # "exhausted"
     /\ \E i \in 1..Len(reqs[s].pre[1]) : reqs[s].pre[1][i].code = reqs[s].code
     /\ \A i \in 1..Len(reqs[s].pre[1]) :
          reqs[s].pre[1][i].code = reqs[s].code =>
            reqs[s].pre[1][i].status \in TerminalStatuses)
    => /\ reqs[s].res = "ok"
       /\ \E i \in RoomsByCode(reqs[s].code, {"waiting"}) :
            Member(i, reqs[s].user) # {}

\* C19: room-code allocation fails with the exhaustion error only if every
\* candidate it generated, the last one included, was held by a room outside
\* finished and closed.
C19_ExhaustedOnlyIfAllCollided ==
  \A s \in Slots :
    (reqs[s].op = "create" /\ reqs[s].pc = "done" /\ reqs[s].res = "exhausted") =>
      \E i \in 1..Len(reqs[s].pre[1]) :
        /\ reqs[s].pre[1][i].code = reqs[s].code
        /\ reqs[s].pre[1][i].status \notin TerminalStatuses

\* C20: when a statement of a room operation fails, the rooms and players
\* afterwards are the rooms and players before the operation.
C20_FailureLeavesNoPartialUpdate ==
  \A s \in Slots :
    (reqs[s].pc = "done" /\ reqs[s].res = "error") =>
      (rooms = reqs[s].pre[1] /\ players = reqs[s].pre[2])

\* ------------------------------------------------------------ economy claims
\* C21: in every reachable state the stored level of every user is the level
\* that calculateLevelFromExp gives for the stored experience, whatever
\* completions, reward updates, achievement unlocks and resets came before.
C21_LevelFollowsExperience ==
  \A u \in Users :
    userStats[u].level = calculateLevelFromExp(userStats[u].experience)

\* The last response is that of a committed call of POST /unlock.
Unlocked(u, a) == userAchievements[u][a].isUnlocked
UnlockAnswered ==
  resp.op = "unlock" /\ resp.res = "ok" /\ ~resp.alreadyUnlocked

\* C22: the reward of an achievement is credited at most once per user and
\* achievement, only by the call that turns isUnlocked from false to true; a
\* call that leaves the achievement locked credits nothing.
C22_RewardOnlyOnUnlock ==
  /\ \A u \in Users, a \in AchievementIds : grants[u][a] <= 1
  /\ UnlockAnswered =>
       IF Unlocked(resp.user, resp.ach)
         THEN ~resp.preAch[resp.ach].isUnlocked
         ELSE ~resp.rewardsGiven /\ userStats[resp.user] = resp.pre

\* The ids that a batch names and that exist.
KnownIn(batch) ==
  {batch[i].achievementId : i \in 1..Len(batch)} \cap AchievementIds

\* C23: a call of unlock or batch-update for an achievement that the user has
\* already unlocked leaves its progress, isUnlocked and unlockedAt as they
\* were, and user_stats too when the call names nothing else.
C23_UnlockedIsFinal ==
  /\ (resp.op = "unlock" /\ resp.res = "ok" /\ resp.preAch[resp.ach].isUnlocked) =>
       /\ userAchievements[resp.user][resp.ach] = resp.preAch[resp.ach]
       /\ userStats[resp.user] = resp.pre
  /\ (resp.op = "batch" /\ resp.res = "ok") =>
       /\ \A a \in AchievementIds :
            resp.preAch[a].isUnlocked =>
              userAchievements[resp.user][a] = resp.preAch[a]
       /\ (\A a \in KnownIn(resp.batch) : resp.preAch[a].isUnlocked) =>
            userStats[resp.user] = resp.pre

\* An unlocked achievement was sent again, later, alone and in a batch.
C23_Witness ==
  \/ /\ resp.op = "unlock" /\ resp.res = "ok" /\ resp.delta > 0
     /\ resp.preAch[resp.ach].isUnlocked
     /\ now > resp.preAch[resp.ach].unlockedAt
  \/ /\ resp.op = "batch" /\ resp.res = "ok" /\ KnownIn(resp.batch) # {}
     /\ \A a \in KnownIn(resp.batch) : resp.preAch[a].isUnlocked
     /\ \E a \in KnownIn(resp.batch) : now > resp.preAch[a].unlockedAt

\* C24: the progress of every user on every achievement stays between 0 and
\* the achievement's maxProgress, and no call of unlock or batch-update lowers
\* it.
C24_ProgressGrowsWithinBounds ==
  /\ \A u \in Users, a \in AchievementIds :
       /\ 0 <= userAchievements[u][a].progress
       /\ userAchievements[u][a].progress <= achievements[a].maxProgress
  /\ (resp.op \in {"unlock", "batch"} /\ resp.res = "ok") =>
       \A a \in AchievementIds :
         userAchievements[resp.user][a].progress >= resp.preAch[a].progress

\* The rewards with every percentage taken of the base value of the
\* difficulty.
AdditiveRewards(g) ==
  LET base == baseRewards[g.difficulty]
      efficient == 2 * g.moves <= 3 * g.totalPieces
      fast == g.completionTime <= speedThresholds[g.difficulty]
      sizeCoins == IF g.totalPieces >= 25 THEN 10 ELSE IF g.totalPieces >= 16 THEN 5 ELSE 0
      sizeExperience == IF g.totalPieces >= 25 THEN 15 ELSE IF g.totalPieces >= 16 THEN 8 ELSE 0
  IN  [coins |-> base.coins + (IF efficient THEN (base.coins * 5) \div 10 ELSE 0)
                   + (IF fast THEN (base.coins * 3) \div 10 ELSE 0) + sizeCoins,
       experience |-> base.experience
                   + (IF efficient THEN (base.experience * 3) \div 10 ELSE 0)
                   + (IF fast THEN (base.experience * 2) \div 10 ELSE 0) + sizeExperience]

\* C25: the rewards of a completion are the base value plus the efficiency
\* bonus, the speed bonus and the size bonus, each percentage taken of the
\* base value, so that the bonuses do not depend on one another.
C25_BonusesAreAdditive ==
  (resp.op = "complete" /\ resp.res = "ok") =>
    resp.rewards = AdditiveRewards(resp.game)

\* C26: a completion adds the reward coins to coins, the reward experience to
\* experience, the score to totalScore and 1 to gamesCompleted, sets level to
\* the level of the new experience, and reports a level-up exactly when the
\* new level is above the old one.
C26_CompletionUpdatesStats ==
  (resp.op = "complete" /\ resp.res = "ok") =>
    LET old == resp.pre
        new == userStats[resp.user]
    IN  /\ resp.rewards = calculateGameRewards(resp.game)
        /\ resp.score = calculateGameScore(resp.game)
        /\ new.coins = old.coins + resp.rewards.coins
        /\ new.experience = old.experience + resp.rewards.experience
        /\ new.level = calculateLevelFromExp(new.experience)
        /\ new.totalScore = old.totalScore + resp.score
        /\ new.gamesCompleted = old.gamesCompleted + 1
        /\ resp.leveledUp <=> new.level > old.level

\* A completion that raised the level of a user who had played before.
C26_Witness ==
  /\ resp.op = "complete" /\ resp.res = "ok" /\ resp.leveledUp
  /\ userStats[resp.user].level = 2
  /\ resp.pre.experience > 0

\* The experience that level L requires: 0 for level 1, 200 * L - 100 above.
RequiredExp(L) == IF L = 1 THEN 0 ELSE 200 * L - 100

\* C29: a user whose experience is exactly what level L requires is at level
\* L, for every level L >= 1, and the level never goes down as the experience
\* goes up: of two experience values the larger has the level at least as
\* high.
C29_LevelOfThresholdAndMonotone ==
  /\ \A u \in Users, L \in 1..MaxLevel :
       /\ calculateLevelFromExp(RequiredExp(L)) = L
       /\ userStats[u].experience = RequiredExp(L) => userStats[u].level = L
  /\ \A u, v \in Users :
       userStats[u].experience <= userStats[v].experience =>
         /\ userStats[u].level <= userStats[v].level
         /\ calculateLevelFromExp(userStats[u].experience)
              <= calculateLevelFromExp(userStats[v].experience)

\* One user stands exactly on the threshold of level 3, the other just
\* below the threshold of level 2.
C29_Witness ==
  \E u, v \in Users :
    /\ userStats[u].experience = RequiredExp(3) /\ userStats[u].level = 3
    /\ userStats[v].experience = RequiredExp(2) - 1 /\ userStats[v].level = 1

\* What the pairs of a batch from pair i on do to achievement a, pair by
\* pair: p is its progress so far, n the number of pairs applied to it; a
\* pair is skipped once the progress has reached maxProgress.
RECURSIVE PairsApplied(_, _, _, _, _)
PairsApplied(a, batch, i, p, n) ==
  IF i > Len(batch)
    THEN [progress |-> p, applied |-> n]
    ELSE IF batch[i].achievementId = a /\ p < achievements[a].maxProgress
      THEN PairsApplied(a, batch, i + 1,
                        Min(p + batch[i].progress, achievements[a].maxProgress), n + 1)
      ELSE PairsApplied(a, batch, i + 1, p, n)

EntriesOf(list, a) == {i \in 1..Len(list) : list[i].id = a}

SumRewards(list, field) ==
  LET RECURSIVE Sum(_)
      Sum(i) == IF i = 0 THEN 0 ELSE Sum(i - 1) + achievements[list[i].id][field]
  IN  Sum(Len(list))

\* C30: a batch skips the pairs whose achievement is unknown or already
\* unlocked for the user (also when an earlier pair of the batch unlocked it)
\* and changes nothing for them; every other pair adds its progress, capped
\* at maxProgress, and is returned once: in 'unlocked' when it reached
\* maxProgress, with the reward credited once, in 'updated' otherwise.
C30_BatchPartitionsItsPairs ==
  (resp.op = "batch" /\ resp.res = "ok") =>
    LET u == resp.user
        all == resp.unlocked \o resp.updated
    IN  /\ \A i \in 1..Len(all) : all[i].id \in KnownIn(resp.batch)
        /\ \A i \in 1..Len(resp.unlocked) :
             /\ resp.unlocked[i].isUnlocked
             /\ resp.unlocked[i].progress = achievements[resp.unlocked[i].id].maxProgress
        /\ \A i \in 1..Len(resp.updated) :
             /\ ~resp.updated[i].isUnlocked
             /\ resp.updated[i].progress < achievements[resp.updated[i].id].maxProgress
        /\ \A a \in AchievementIds :
             LET old == resp.preAch[a]
                 new == userAchievements[u][a]
                 exp == PairsApplied(a, resp.batch, 1, old.progress, 0)
             IN  /\ Cardinality(EntriesOf(resp.unlocked, a)) <= 1
                 /\ Cardinality(EntriesOf(all, a)) = exp.applied
                 /\ exp.applied = 0 => new = old
                 /\ exp.applied > 0 =>
                      /\ new.exists /\ new.progress = exp.progress
                      /\ new.isUnlocked <=> EntriesOf(resp.unlocked, a) # {}
                      /\ new.isUnlocked <=> new.progress = achievements[a].maxProgress
        /\ userStats[u] =
             [resp.pre EXCEPT !.coins = @ + SumRewards(resp.unlocked, "rewardCoins"),
                              !.experience = @ + SumRewards(resp.unlocked, "rewardExperience")]

\* A batch named a locked achievement twice and its first pair unlocked it.
C30_Witness ==
  /\ resp.op = "batch" /\ resp.res = "ok" /\ Len(resp.batch) = 2
  /\ resp.batch[1].achievementId = resp.batch[2].achievementId
  /\ resp.batch[1].achievementId \in AchievementIds
  /\ resp.preAch[resp.batch[1].achievementId].exists
  /\ ~resp.preAch[resp.batch[1].achievementId].isUnlocked
  /\ Len(resp.unlocked) = 1 /\ resp.updated = <<>>
  /\ userStats[resp.user].coins > resp.pre.coins

\* C27: whatever the interleaving of the transactions of a user, no credit
\* is lost: once they have all committed, the experience is the initial
\* experience plus all the experience credited, and the coins are the initial
\* coins plus all the coins credited.
C27_NoCreditIsLost ==
  (\A t \in TxSlots : txs[t].op = "idle") =>
    \A u \in Users :
      /\ userStats[u].experience = NewStats.experience + credited[u].experience
      /\ userStats[u].coins = NewStats.coins + credited[u].coins

\* C28: when the last player of a room finishes and the game is settled, the
\* user_stats of every participant are updated as after a single-player
\* completion: gamesCompleted, at least, is one more than before the request.
C28_SettlementUpdatesStats ==
  \A s \in Slots :
    Closed(s) =>
      \A p \in PlayersOf(reqs[s].rid) :
        userStats[p.user].gamesCompleted > reqs[s].pre[3][p.user].gamesCompleted

\* ------------------------------------------------- room claims, continued
\* C35: whenever no handler is running, every room that is waiting, ready,
\* playing or finished has at least one player, however leaveRoom calls
\* interleave.
C35_OpenRoomHasPlayer ==
  Quiet =>
    \A i \in RoomIds :
      rooms[i].status \in {"waiting", "ready", "playing", "finished"} =>
        Cardinality(PlayersOf(i)) >= 1

\* C36: closed is terminal: a closed room stays closed and gains no player
\* row in any step of any request.
C36_ClosedIsTerminal ==
  [][\A i \in RoomIds :
       rooms[i].status = "closed" =>
         /\ rooms'[i].status = "closed"
         /\ {p \in players' : p.room = i} \subseteq PlayersOf(i)]_vars

\* The player statuses that go with a room status.
StatusesIn(roomStatus) ==
  CASE roomStatus = "waiting" -> {"joined", "ready"}
    [] roomStatus = "ready" -> {"ready"}
    [] roomStatus = "playing" -> {"playing", "finished"}
    [] roomStatus = "finished" -> {"finished"}
    [] OTHER -> {"joined", "ready", "playing", "finished"}

\* C37: whenever no handler is running, the status of every player is one
\* that goes with the status of the room: joined or ready in a waiting room,
\* ready in a ready room, playing or finished in a playing room, finished in
\* a finished room.
C37_PlayerStatusFollowsRoom ==
  Quiet =>
    \A p \in players : p.status \in StatusesIn(rooms[p.room].status)

\* C38: whenever no handler is running, a playing room has a player who has
\* not finished: a game whose remaining players have all finished is settled.
C38_PlayingRoomHasUnfinished ==
  Quiet =>
    \A i \in RoomIds :
      rooms[i].status = "playing" =>
        \E p \in PlayersOf(i) : p.status # "finished"

\* C39: a recordFinish call by a player whose result is already stored leaves
\* the player's completionTime, movesCount and finished status as they were.
C39_StoredResultIsKept ==
  \A s \in Slots :
    (reqs[s].op = "finish" /\ reqs[s].pc = "done") =>
      \A i \in 1..Len(reqs[s].pre[1]) :
        \A p \in RowsOf(reqs[s].pre[2], i, reqs[s].user) :
          (reqs[s].pre[1][i].code = reqs[s].code /\ p.status = "finished") =>
            \E q \in Member(i, reqs[s].user) :
              /\ q.status = "finished"
              /\ q.ctime = p.ctime
              /\ q.moves = p.moves

\* C34: however joinRoom calls on a room interleave, the room never has more
\* player rows than maxPlayers.
C34_RowsWithinMaxPlayers ==
  \A i \in RoomIds : Cardinality(PlayersOf(i)) <= rooms[i].maxPlayers

\* --- single-player records, claims
\* The leaderboard entry of the completion that was answered last.
EntryOfResp ==
  [user |-> resp.user, difficulty |-> resp.game.difficulty,
   pieceShape |-> resp.game.pieceShape, gridSize |-> resp.game.gridSize,
   completionTime |-> resp.game.completionTime, moves |-> resp.game.moves,
   score |-> calculateGameScore(resp.game)]

\* The best-time rows of the answered user for the answered configuration, as
\* they were when the completion committed.
BestBeforeResp ==
  {b \in resp.preBest : b.user = resp.user /\ SameConfig(b, resp.game)}

\* The attempt beat the record that was stored before it.
RecordBeaten ==
  \/ BestBeforeResp = {}
  \/ \E b \in BestBeforeResp :
       \/ resp.game.completionTime < b.bestTime
       \/ resp.game.completionTime = b.bestTime /\ resp.game.moves < b.bestMoves

\* C31: a completion appends exactly one leaderboard entry if the attempt was a
\* new record or its score is above 1000, and appends none otherwise.
C31_LeaderboardQualification ==
  (resp.op = "complete" /\ resp.res = "ok") =>
    /\ resp.newRecord <=> RecordBeaten
    /\ resp.addedToLeaderboard <=> (RecordBeaten \/ calculateGameScore(resp.game) > 1000)
    /\ leaderboard =
         IF RecordBeaten \/ calculateGameScore(resp.game) > 1000
           THEN resp.preBoard (+) SetToBag({EntryOfResp})
           ELSE resp.preBoard

\* A repeated completion that is no new record and still enters the
\* leaderboard by its score, as a second copy of the same entry.
C31_Witness ==
  /\ resp.op = "complete" /\ resp.res = "ok"
  /\ ~RecordBeaten
  /\ calculateGameScore(resp.game) > 1000
  /\ BagIn(EntryOfResp, leaderboard)
  /\ CopiesIn(EntryOfResp, leaderboard) = 2

\* C32: the leaderboard is append-only: no step removes or changes an entry,
\* every entry keeps at least the copies it had.
C32_LeaderboardAppendOnly ==
  [][\A e \in BagToSet(leaderboard) :
       /\ BagIn(e, leaderboard')
       /\ CopiesIn(e, leaderboard') >= CopiesIn(e, leaderboard)]_vars

\* The games that the user of a best-time row has completed in the
\* configuration of the row.
CompletionsOf(b) ==
  {r.game : r \in {x \in BagToSet(soloRecords) : x.user = b.user /\ SameConfig(b, x.game)}}

\* (completionTime, moves) of g is at most that of h in the lexicographic order.
LexLeq(g, h) ==
  \/ g.completionTime < h.completionTime
  \/ g.completionTime = h.completionTime /\ g.moves <= h.moves

\* C40: the stored best record of a user and configuration is the
\* lexicographically smallest (completionTime, moves) pair among the user's
\* completions of that configuration, the pair of one actual completion.
C40_BestIsLexicographicMinimum ==
  \A b \in bestTimes :
    \E g \in CompletionsOf(b) :
      /\ b.bestTime = g.completionTime
      /\ b.bestMoves = g.moves
      /\ \A h \in CompletionsOf(b) : LexLeq(g, h)

\* The last response answered a user who has no user_stats row.
OrphanAnswered ==
  /\ resp.op \in {"complete", "unlock", "batch"}
  /\ ~resp.pre.exists

\* C33: an economy operation for a user without a user_stats row fails with
\* an error and persists nothing: no game record, best time, leaderboard
\* entry or achievement progress.
C33_MissingStatsFailsClean ==
  OrphanAnswered =>
    /\ resp.res = "error"
    /\ userAchievements[resp.user] = resp.preAch
    /\ soloRecords = resp.preRecords
    /\ bestTimes = resp.preBest
    /\ leaderboard = resp.preBoard

====
